---- MODULE Spec2Model ----
(***************************************************************************)
(* A model of pkarr's rate-limited caching DHT responder                   *)
(* (server/src/dht_server.rs) and of its BEP44 envelope (pkarr/src/        *)
(* bep44.rs), together with the collaborators they drive: the packet       *)
(* cache, the per-IP rate limiter, the signed packet's expiry computation  *)
(* and the asynchronous network lookups whose answers feed the cache.  The *)
(* responder and the envelope are translated from the source; the          *)
(* collaborators whose code is not in the source tree follow the written   *)
(* specification.                                                          *)
(***************************************************************************)
EXTENDS Integers, Sequences, FiniteSets, TLC

(* ------------------------------ bounds -------------------------------- *)

\* Events of the environment in one run: inbound requests and clock ticks.
MaxEvents == 3
\* Sequence numbers run from 1 to MaxSeq.
MaxSeq == 2

(* ------------------------- limiter configuration ---------------------- *)

\* Threshold N of refresh-triggering requests per window, and the window.
RateThreshold == 1
RateWindow == 2

(* ------------------------------ universes ----------------------------- *)

\* Option::None of a cache entry, a limiter bucket or a node list.
None == [none |-> TRUE]
\* A request that names no target.
NoTarget == "-"

\* Public keys; the lookup target of a key is modelled by the key itself.
Keys == {"K1", "K2"}

IPs == {"ip1", "ip2"}
Ports == {6881, 6882}
\* The port of an address that is an IP alone.
NoPort == 0
\* SocketAddr: an IP and a port.
SocketAddr(ip, port) == [ip |-> ip, port |-> port]
\* The sources of inbound requests: two ports of one IP, and another IP.
Sources ==
    {SocketAddr("ip1", 6881), SocketAddr("ip1", 6882), SocketAddr("ip2", 6881)}
Tids == {1, 2}

\* Smallest record TTLs a payload can advertise.
Ttls == {0, 3}
\* record_payload: opaque bytes, of which only the smallest record TTL is read.
Payloads == {[body |-> "a", ttl |-> 0], [body |-> "b", ttl |-> 3]}

\* Configured TTL bounds the server can be constructed with.
MinTtls == {0, 1}
MaxTtls == {2}

Min(a, b) == IF a < b THEN a ELSE b
Max(a, b) == IF a > b THEN a ELSE b

(* -------------------------------- bytes ------------------------------- *)

\* The ASCII decimal digits of n, as format!("{}", n) writes them.
RECURSIVE Digits(_)
Digits(n) ==
    IF n < 10 THEN <<48 + n>> ELSE Digits(n \div 10) \o <<48 + (n % 10)>>

\* n as `width` big-endian bytes (to_be_bytes).
RECURSIVE BeBytes(_, _)
BeBytes(n, width) ==
    IF width = 0 THEN <<>> ELSE BeBytes(n \div 256, width - 1) \o <<n % 256>>

\* The number big-endian bytes stand for (from_be_bytes).
RECURSIVE FromBeBytes(_)
FromBeBytes(bytes) ==
    IF bytes = <<>>
    THEN 0
    ELSE FromBeBytes(SubSeq(bytes, 1, Len(bytes) - 1)) * 256 + bytes[Len(bytes)]

\* bytes.slice(from..): the bytes after the first `from`.
SliceFrom(bytes, from) == SubSeq(bytes, from + 1, Len(bytes))

\* bytes.slice(from..to)
Slice(bytes, from, to) == SubSeq(bytes, from + 1, to)

\* The compressed wire bytes of a record payload: its body, then its smallest
\* record TTL as a u32.
PacketBytes(v) == <<IF v.body = "a" THEN 97 ELSE 98>> \o BeBytes(v.ttl, 4)

(* ---------------------------- signed packet --------------------------- *)

\* The canonical signable string "3:seqi<seq>e1:v<len>:" ++ v, in ASCII.
signable(seq, v) ==
    <<51, 58, 115, 101, 113, 105>> \o Digits(seq)
        \o <<101, 49, 58, 118>> \o Digits(Len(v)) \o <<58>> \o v

\* The byte a key's signatures start with.
KeyByte(k) == IF k = "K1" THEN 1 ELSE 2

\* Keypair::sign: the deterministic 64-byte signature of msg under k, an
\* injective image of the signer and the signed message.
Sign(k, msg) ==
    [i \in 1..64 |->
        IF i = 1 THEN KeyByte(k) ELSE IF i - 1 <= Len(msg) THEN msg[i - 1] ELSE 0]

\* PublicKey::verify: Ok exactly for the signature of msg under public_key.
Verify(public_key, msg, sig) == sig = Sign(public_key, msg)

\* SignedPacket built by the owner of key k.
SignedPacket(k, seq, v) ==
    [k |-> k, seq |-> seq, v |-> v,
     sig |-> Sign(k, signable(seq, PacketBytes(v)))]

Packets == {SignedPacket(k, s, v) : k \in Keys, s \in 1..MaxSeq, v \in Payloads}

(* --------------------------- BEP44 envelope --------------------------- *)

\* Bep44Args: the public key, the sequence, the value bytes and the signature.
Bep44Args(k, seq, v, sig) == [k |-> k, seq |-> seq, v |-> v, sig |-> sig]

\* Bep44Args::try_from_packet: the packet's bytes signed by the keypair under
\* the sequence drawn from the clock (system_time_now, in microseconds).
TryFromPacket(keypair, packet, micros) ==
    LET v == PacketBytes(packet)
    IN Bep44Args(keypair, micros, v, Sign(keypair, signable(micros, v)))

\* Mutant: the body stops after the sequence.
RelayPayloadWithoutValue(args) == args.sig \o BeBytes(args.seq, 8)

\* relay_payload: signature (64) || sequence (8, big-endian) || value.
RelayPayload(args) == args.sig \o BeBytes(args.seq, 8) \o args.v

\* Mutant: the error carries what is missing, not what was given.
SignatureLengthErrorMissing(bytes_length) ==
    [error |-> "RelayPayloadInvalidSignatureLength", len |-> 64 - bytes_length]

\* Error::RelayPayloadInvalidSignatureLength(bytes_length)
SignatureLengthError(bytes_length) ==
    [error |-> "RelayPayloadInvalidSignatureLength", len |-> bytes_length]

\* Mutant: the error carries the whole length.
SequenceLengthErrorWhole(bytes_length) ==
    [error |-> "RelayPayloadInvalidSequenceLength", len |-> bytes_length]

\* Error::RelayPayloadInvalidSequenceLength(bytes_length - 64)
SequenceLengthError(bytes_length) ==
    [error |-> "RelayPayloadInvalidSequenceLength", len |-> bytes_length - 64]

\* Mutant: the outcome of verify is dropped.
VerifiedUnchecked(public_key, seq, v, sig) == TRUE

\* public_key.verify(&signable(seq, v), &sig) is Ok
Verified(public_key, seq, v, sig) == Verify(public_key, signable(seq, v), sig)

\* Bep44Args::try_from_relay_response; `verifications` counts the calls of
\* verify the parse made.
TryFromRelayResponse(public_key, bytes) ==
    LET bytes_length == Len(bytes)
    IN IF bytes_length < 64
       THEN [ok |-> FALSE, err |-> SignatureLengthError(bytes_length),
             verifications |-> 0]
       ELSE IF bytes_length < 72
       THEN [ok |-> FALSE, err |-> SequenceLengthError(bytes_length),
             verifications |-> 0]
       ELSE LET sig == Slice(bytes, 0, 64)
                seq == FromBeBytes(Slice(bytes, 64, 72))
                v == SliceFrom(bytes, 72)
            IN IF Verified(public_key, seq, v, sig)
               THEN [ok |-> TRUE, args |-> Bep44Args(public_key, seq, v, sig),
                     verifications |-> 1]
               ELSE [ok |-> FALSE, err |-> [error |-> "InvalidSignature"],
                     verifications |-> 1]

\* Mutant: the floor is applied, the ceiling forgotten.
EffectiveTtlFloorOnly(packet, min_ttl, max_ttl) == Max(min_ttl, packet.v.ttl)

\* effective_ttl = min(max_ttl, max(min_ttl, min_record_ttl))
EffectiveTtl(packet, min_ttl, max_ttl) ==
    Min(max_ttl, Max(min_ttl, packet.v.ttl))

\* CacheEntry.expires_in: max(0, effective_ttl - elapsed_since(stored_at))
ExpiresIn(entry, min_ttl, max_ttl, t) ==
    Max(0, EffectiveTtl(entry.packet, min_ttl, max_ttl) - (t - entry.stored_at))

(* -------------------------------- cache ------------------------------- *)

CacheEntry(packet, t) == [packet |-> packet, stored_at |-> t]

\* Cache.get: the entry, whatever its freshness.
CacheGet(c, key) == c[key]

\* Mutant: a duplicate sequence replaces the entry.
CachePutOnEqual(c, packet, t) ==
    IF c[packet.k] = None \/ packet.seq >= c[packet.k].packet.seq
    THEN [c EXCEPT ![packet.k] = CacheEntry(packet, t)]
    ELSE c

\* Mutant: the last writer wins by arrival.
CachePutUnguarded(c, packet, t) ==
    [c EXCEPT ![packet.k] = CacheEntry(packet, t)]

\* Mutant: any other sequence replaces the entry, a lower one included.
ReplacesOnAnyOther(existing, packet) ==
    existing = None \/ packet.seq # existing.packet.seq

\* The monotonic-write guard itself.
Replaces(existing, packet) ==
    existing = None \/ packet.seq > existing.packet.seq

\* Cache.put: insert if absent, replace only on a strictly greater sequence.
CachePut(c, packet, t) ==
    IF Replaces(c[packet.k], packet)
    THEN [c EXCEPT ![packet.k] = CacheEntry(packet, t)]
    ELSE c

(* ----------------------------- rate limiter --------------------------- *)

\* The counter of ip once a window that has run out is restarted at t.
Bucket(lim, ip, t) ==
    IF lim[ip] = None \/ t - lim[ip].start >= RateWindow
    THEN [start |-> t, count |-> 0]
    ELSE lim[ip]

\* IpRateLimiter.is_limited: counts the call, limited once past the threshold.
\* The counter saturates one past the threshold.
IsLimited(lim, ip, t) ==
    LET b == Bucket(lim, ip, t)
        n == Min(b.count + 1, RateThreshold + 1)
    IN [state |-> [lim EXCEPT ![ip] = [start |-> b.start, count |-> n]],
        limited |-> n > RateThreshold]

\* The limiter after n calls of is_limited in a row, and the answer of the
\* last of them.
RECURSIVE Consult(_, _, _, _)
Consult(lim, ip, t, n) ==
    IF n = 0
    THEN [state |-> lim, limited |-> FALSE]
    ELSE IsLimited(Consult(lim, ip, t, n - 1).state, ip, t)

(* -------------------------------- state ------------------------------- *)

VARIABLES
    cache,        \* key -> CacheEntry or None
    limiter,      \* limiter key -> [start, count] or None
    minimum_ttl,  \* configuration
    maximum_ttl,  \* configuration
    now,          \* the clock
    outbound,     \* network lookups in flight: target -> how many
    writers,      \* packets in hand of writers about to call Cache.put
    nev,          \* events of the environment so far
    last,         \* what the step just taken did
    proposed,     \* history: key -> the packets proposed for it so far that
                  \*          carry the highest sequence proposed for it
    maxPut        \* history: key -> greatest sequence put so far

vars == <<cache, limiter, minimum_ttl, maximum_ttl, now, outbound, writers,
          nev, last, proposed, maxPut>>

config == <<minimum_ttl, maximum_ttl>>
history == <<proposed, maxPut>>

LimiterKeys == [ip : IPs, port : Ports \cup {NoPort}]

Init ==
    /\ cache = [k \in Keys |-> None]
    /\ limiter = [i \in LimiterKeys |-> None]
    /\ minimum_ttl \in MinTtls
    /\ maximum_ttl \in MaxTtls
    /\ now = 0
    /\ outbound = [k \in Keys |-> 0]
    /\ writers = {}
    /\ nev = 0
    /\ last = [op |-> "new"]
    /\ proposed = [k \in Keys |-> {}]
    /\ maxPut = [k \in Keys |-> 0]

(* ------------------------------ responder ----------------------------- *)

GetValueRequest(target) == [kind |-> "GetValue", target |-> target]

Requests ==
    {GetValueRequest(t) : t \in Keys}
        \cup {[kind |-> "GetPeers", target |-> "K1"]}
        \cup {[kind |-> "Ping", target |-> NoTarget]}

\* Mutant: every request that carries a target is taken for a lookup.
IsGetValueAnyTarget(request) == request.target # NoTarget

\* The pattern of the `if let`: the GetValue variant only.
IsGetValue(request) == request.kind = "GetValue"

\* Mutant: the sequence and the signature are read from the cache again when
\* the response is sent.
GetMutableResponseTorn(from, tid, cached) ==
    [to |-> from, tid |-> tid, token |-> <<0, 0, 0, 0>>, nodes |-> None,
     v |-> cached.packet.v, k |-> cached.packet.k,
     seq |-> cache'[cached.packet.k].packet.seq,
     sig |-> cache'[cached.packet.k].packet.sig]

\* The GetMutable response built from a cached packet.
GetMutableResponse(from, tid, cached) ==
    [to |-> from, tid |-> tid, token |-> <<0, 0, 0, 0>>, nodes |-> None,
     v |-> cached.packet.v, k |-> cached.packet.k,
     seq |-> cached.packet.seq, sig |-> cached.packet.sig]

\* Mutant: a freshness gate before the response.
CachedResponseIfFresh(from, tid, cached, min_ttl, max_ttl, t) ==
    IF cached # None /\ ExpiresIn(cached, min_ttl, max_ttl, t) > 0
    THEN <<GetMutableResponse(from, tid, cached)>>
    ELSE <<>>

\* The responses emitted for a lookup: one on a cache hit, expired or not.
CachedResponse(from, tid, cached, min_ttl, max_ttl, t) ==
    IF cached # None
    THEN <<GetMutableResponse(from, tid, cached)>>
    ELSE <<>>

\* Mutant: only a cache miss asks for a refresh.
ShouldQueryOnMissOnly(cached, min_ttl, max_ttl, t) == cached = None

\* Mutant: only an expired hit asks for a refresh, a miss does not.
ShouldQueryOnHitOnly(cached, min_ttl, max_ttl, t) ==
    cached # None /\ ExpiresIn(cached, min_ttl, max_ttl, t) = 0

\* should_query: a cache miss, or a hit whose expires_in is 0.
ShouldQuery(cached, min_ttl, max_ttl, t) ==
    IF cached # None
    THEN ExpiresIn(cached, min_ttl, max_ttl, t) = 0
    ELSE TRUE

\* Mutant: the limiter is keyed by the whole socket address.
LimiterKeyWithPort(from) == from

\* The key the limiter is asked about: from.ip(), the address without its port.
LimiterKey(from) == [ip |-> from.ip, port |-> NoPort]

\* Mutant: the limiter is asked about every lookup, fresh hits included.
LimiterCallsAlways(should_query) == 1

\* Mutant: the limiter is asked again before the refresh goes out.
LimiterCallsTwice(should_query) == IF should_query THEN 2 ELSE 0

\* The calls of is_limited: one, made only when a refresh is needed.
LimiterCalls(should_query) == IF should_query THEN 1 ELSE 0

\* Mutant: the refresh is sent twice.
RefreshQueriesTwice(target, limited) ==
    IF limited THEN <<>> ELSE <<GetValueRequest(target), GetValueRequest(target)>>

\* Mutant: the refresh goes out whatever the limiter says.
RefreshQueriesUnlimited(target, limited) == <<GetValueRequest(target)>>

\* The rpc.get calls of a request that needs a refresh.
RefreshQueries(target, limited) ==
    IF limited THEN <<>> ELSE <<GetValueRequest(target)>>

\* Mutant: only what was not answered here goes to the default handler.
DelegatedUnlessGetValue(from, tid, request) ==
    IF request.kind = "GetValue"
    THEN <<>>
    ELSE <<[from |-> from, tid |-> tid, request |-> request]>>

\* The calls of the default DHT handler: one, with the request as it came.
Delegated(from, tid, request) ==
    <<[from |-> from, tid |-> tid, request |-> request]>>

(* ------------------------------- actions ------------------------------ *)

\* Rpc::get, once per query: one more lookup in flight for the query's target.
RECURSIVE Issue(_, _)
Issue(out, queries) ==
    IF queries = <<>>
    THEN out
    ELSE Issue([out EXCEPT ![Head(queries).target] = @ + 1], Tail(queries))

\* n times the same effect.
Repeat(effect, n) == [i \in 1..n |-> effect]

\* Mutant: the refresh is issued first, the cached answer sent after it.
EffectsRefreshFirst(lookup, hit, responses, calls, queries, delegated) ==
    (IF lookup THEN <<"cache.get">> ELSE <<>>)
        \o (IF hit THEN <<"expires_in">> ELSE <<>>)
        \o Repeat("is_limited", calls)
        \o Repeat("rpc.get", Len(queries))
        \o Repeat("rpc.response", Len(responses))
        \o Repeat("inner.handle_request", Len(delegated))

\* The calls handle_request makes on its collaborators, in the order of its
\* statements.
Effects(lookup, hit, responses, calls, queries, delegated) ==
    (IF lookup THEN <<"cache.get">> ELSE <<>>)
        \o Repeat("rpc.response", Len(responses))
        \o (IF hit THEN <<"expires_in">> ELSE <<>>)
        \o Repeat("is_limited", calls)
        \o Repeat("rpc.get", Len(queries))
        \o Repeat("inner.handle_request", Len(delegated))

\* The body of DhtServer::handle_request, run on the cache as it stands when
\* cache.get is called: the limiter and the lookups in flight it leaves, and
\* the record of what it did.
Handling(op, from, tid, request) ==
    LET lookup == IsGetValue(request)
        cached == IF lookup THEN CacheGet(cache, request.target) ELSE None
        responses ==
            IF lookup
            THEN CachedResponse(from, tid, cached, minimum_ttl, maximum_ttl, now)
            ELSE <<>>
        should_query ==
            lookup /\ ShouldQuery(cached, minimum_ttl, maximum_ttl, now)
        calls == LimiterCalls(should_query)
        checked == Consult(limiter, LimiterKey(from), now, calls)
        limited == checked.limited
        \* history: the step before this one filled the target's empty slot
        \* with the packet a lookup had yielded
        after_fill ==
            /\ lookup
            /\ last.op = "put"
            /\ last.inserted
            /\ last.packet.k = request.target
        queries ==
            IF should_query THEN RefreshQueries(request.target, limited) ELSE <<>>
        delegated == Delegated(from, tid, request)
    IN [limiter |-> checked.state,
        outbound |-> Issue(outbound, queries),
        last |-> [op |-> op, from |-> from, tid |-> tid,
                  request |-> request,
                  cache_gets |-> IF lookup THEN 1 ELSE 0,
                  responses |-> responses,
                  should_query |-> should_query,
                  limiter_calls |-> calls,
                  after_fill |-> after_fill,
                  limited |-> limited,
                  queries |-> queries,
                  delegated |-> delegated,
                  effects |-> Effects(lookup, cached # None, responses,
                                      calls, queries, delegated)]]

\* DhtServer::handle_request, the whole handler.
HandleRequest(from, tid, request) ==
    /\ nev < MaxEvents
    /\ nev' = nev + 1
    /\ UNCHANGED <<cache, config, now, writers, proposed, maxPut>>
    /\ LET h == Handling("handle", from, tid, request)
       IN /\ limiter' = h.limiter
          /\ outbound' = h.outbound
          /\ last' = h.last

\* DhtServer::handle_request of a lookup while a writer replaces the entry of
\* its target: the put falls between the handler's cache.get and the sending
\* of its response.
HandleRequestAcrossPut(from, tid, request, w) ==
    /\ nev < MaxEvents
    /\ IsGetValue(request)
    /\ w \in writers
    /\ w.k = request.target
    /\ cache[w.k] # None
    /\ nev' = nev + 1
    /\ cache' = CachePut(cache, w, now)
    /\ writers' = writers \ {w}
    /\ maxPut' = [maxPut EXCEPT ![w.k] = Max(@, w.seq)]
    /\ UNCHANGED <<config, now, proposed>>
    /\ LET h == Handling("handle_across_put", from, tid, request)
       IN /\ limiter' = h.limiter
          /\ outbound' = h.outbound
          /\ last' = h.last

\* The history of proposals once a writer has taken packet in hand.
Propose(tops, packet) ==
    LET top == tops[packet.k]
    IN IF \A p \in top : p.seq < packet.seq
       THEN [tops EXCEPT ![packet.k] = {packet}]
       ELSE IF \E p \in top : p.seq = packet.seq
            THEN [tops EXCEPT ![packet.k] = top \cup {packet}]
            ELSE tops

\* The record payload the value bytes of an envelope parse into.
PayloadOf(v) ==
    [body |-> IF v[1] = 97 THEN "a" ELSE "b", ttl |-> FromBeBytes(SliceFrom(v, 1))]

\* The SignedPacket a verified envelope is wrapped into.
SignedPacketOf(args) ==
    [k |-> args.k, seq |-> args.seq, v |-> PayloadOf(args.v), sig |-> args.sig]

\* An envelope whose sequence was raised after it was signed.
Tampered(args) == [args EXCEPT !.seq = @ + 1]

\* What the network can answer a lookup with: the envelopes the owners of the
\* keys signed, the latest of them with their sequence raised by another
\* hand, and an empty body.
Responses ==
    LET signed == {TryFromPacket(k, v, seq) :
                       k \in Keys, v \in Payloads, seq \in 1..MaxSeq}
        latest == {args \in signed : args.seq = MaxSeq}
    IN {RelayPayload(args) : args \in signed}
           \cup {RelayPayload(Tampered(args)) : args \in latest}
           \cup {<<>>}

\* try_from_relay_response of every answer under every target, worked out
\* once.
Parses ==
    [l \in Keys |-> [bytes \in Responses |-> TryFromRelayResponse(l, bytes)]]

\* A network lookup is answered with an envelope that verifies under its
\* target: the packet goes to a writer.
LookupYields(l, bytes) ==
    /\ outbound[l] > 0
    /\ LET parsed == Parses[l][bytes]
       IN /\ parsed.ok
          /\ writers' = writers \cup {SignedPacketOf(parsed.args)}
          /\ proposed' = Propose(proposed, SignedPacketOf(parsed.args))
          /\ last' = [op |-> "yield", lookup |-> l,
                      packet |-> SignedPacketOf(parsed.args)]
    /\ outbound' = [outbound EXCEPT ![l] = @ - 1]
    /\ UNCHANGED <<cache, limiter, config, now, nev, maxPut>>

\* A network lookup is answered with bytes that do not parse under its target:
\* the answer is dropped.
LookupYieldsInvalid(l, bytes) ==
    /\ outbound[l] > 0
    /\ LET parsed == Parses[l][bytes]
       IN /\ ~parsed.ok
          /\ last' = [op |-> "reject", lookup |-> l, err |-> parsed.err]
    /\ outbound' = [outbound EXCEPT ![l] = @ - 1]
    /\ UNCHANGED <<cache, limiter, config, now, writers, nev, history>>

\* A network lookup fails, times out, or no result arrives.
LookupFails(l) ==
    /\ outbound[l] > 0
    /\ outbound' = [outbound EXCEPT ![l] = @ - 1]
    /\ last' = [op |-> "fail", lookup |-> l]
    /\ UNCHANGED <<cache, limiter, config, now, writers, nev, history>>

\* The writer a lookup's packet went to calls Cache.put: one atomic
\* compare-and-replace.
WriterPut(w) ==
    /\ w \in writers
    /\ cache' = CachePut(cache, w, now)
    /\ writers' = writers \ {w}
    /\ maxPut' = [maxPut EXCEPT ![w.k] = Max(@, w.seq)]
    /\ last' = [op |-> "put", packet |-> w, inserted |-> cache[w.k] = None]
    /\ UNCHANGED <<limiter, config, now, outbound, nev, proposed>>

\* The limiter reclaims the counter of an IP whose window has run out.
Reclaim(key) ==
    /\ limiter[key] # None
    /\ now - limiter[key].start >= RateWindow
    /\ limiter' = [limiter EXCEPT ![key] = None]
    /\ last' = [op |-> "reclaim", key |-> key]
    /\ UNCHANGED <<cache, config, now, outbound, writers, nev, history>>

\* Time passes.
Tick ==
    /\ nev < MaxEvents
    /\ nev' = nev + 1
    /\ now' = now + 1
    /\ last' = [op |-> "tick"]
    /\ UNCHANGED <<cache, limiter, config, outbound, writers, history>>

Next ==
    \/ \E from \in Sources, tid \in Tids, request \in Requests :
           HandleRequest(from, tid, request)
    \/ \E from \in Sources, tid \in Tids, request \in Requests, w \in writers :
           HandleRequestAcrossPut(from, tid, request, w)
    \/ \E l \in Keys, bytes \in Responses : LookupYields(l, bytes)
    \/ \E l \in Keys, bytes \in Responses : LookupYieldsInvalid(l, bytes)
    \/ \E l \in Keys : LookupFails(l)
    \/ \E w \in writers : WriterPut(w)
    \/ \E key \in LimiterKeys : Reclaim(key)
    \/ Tick

Spec == Init /\ [][Next]_vars

(* ----------------- the packet's own operations, on their own ---------- *)

\* Sequences the clock of a signer can give, in one and in several bytes.
Micros == {0, 1, 255, 256, 65537}

\* The default TTL bounds of the crate.
DEFAULT_MINIMUM_TTL == 30
DEFAULT_MAXIMUM_TTL == 86400

\* Smallest record TTLs, TTL bounds and ages expires_in is asked about.
RecordTtls == {0, 3, 5, 30, 31, 999999}
MinTtlCases == {0, DEFAULT_MINIMUM_TTL}
MaxTtlCases == {2, DEFAULT_MAXIMUM_TTL}
Ages == {0, 1, 2, 29, 30, 31, 86399, 86400, 86401}

\* The server as constructed, idle: only `last` moves.
idle == <<cache, limiter, config, now, outbound, writers, nev, history>>

\* A run follows one relay exchange, which its parse ends.
Exchanged == last.op = "parse"

\* A publisher signs a record payload: Bep44Args::try_from_packet.
Build(keypair, packet, micros) ==
    /\ ~Exchanged
    /\ last' = [op |-> "build", keypair |-> keypair, packet |-> packet,
                micros |-> micros,
                args |-> TryFromPacket(keypair, packet, micros)]
    /\ UNCHANGED idle

\* The envelope just built is serialised for the relay: relay_payload.
ToWire ==
    /\ last.op = "build"
    /\ last' = [op |-> "wire", packet |-> last.packet, micros |-> last.micros,
                args |-> last.args, bytes |-> RelayPayload(last.args)]
    /\ UNCHANGED idle

\* The first n bytes of a relay body reach a client that parses them for
\* public_key: Bep44Args::try_from_relay_response.
ParseRelay(public_key, n) ==
    /\ last.op = "wire"
    /\ n <= Len(last.bytes)
    /\ LET bytes == SubSeq(last.bytes, 1, n)
       IN last' = [op |-> "parse", packet |-> last.packet,
                   micros |-> last.micros, sent |-> last.args,
                   whole |-> n = Len(last.bytes),
                   public_key |-> public_key, bytes |-> bytes,
                   result |-> TryFromRelayResponse(public_key, bytes)]
    /\ UNCHANGED idle

\* SignedPacket::expires_in of a packet stored `age` seconds ago.
ExpiresInCall(ttl, min_ttl, max_ttl, age) ==
    LET packet == SignedPacket("K1", 1, [body |-> "a", ttl |-> ttl])
    IN /\ ~Exchanged
       /\ last' = [op |-> "expires_in", ttl |-> ttl, min_ttl |-> min_ttl,
                   max_ttl |-> max_ttl, age |-> age,
                   effective |-> EffectiveTtl(packet, min_ttl, max_ttl),
                   result |-> ExpiresIn(CacheEntry(packet, 0),
                                        min_ttl, max_ttl, age)]
       /\ UNCHANGED idle

NextPacket ==
    \/ \E keypair \in Keys, packet \in Payloads, micros \in Micros :
           Build(keypair, packet, micros)
    \/ ToWire
    \/ \E public_key \in Keys, n \in 0..80 : ParseRelay(public_key, n)
    \/ \E ttl \in RecordTtls, min_ttl \in MinTtlCases,
          max_ttl \in MaxTtlCases, age \in Ages :
           ExpiresInCall(ttl, min_ttl, max_ttl, age)

SpecPacket == Init /\ [][NextPacket]_vars

(* ------------------------------ properties ---------------------------- *)

\* The step just taken handled an inbound request.
Handled == last.op = "handle"

\* The steps that run handle_request, alone or across a put.
HandleOps == {"handle", "handle_across_put"}

\* The steps in which a writer calls Cache.put, on its own or while a request
\* is being handled.
PutOps == {"put", "handle_across_put"}

\* How many times an effect occurs among the effects of a step.
Count(effects, effect) == Cardinality({i \in DOMAIN effects : effects[i] = effect})

\* The target's entry is missing or its expires_in is 0.
NeedsRefresh(c, target, min_ttl, max_ttl, t) ==
    c[target] = None \/ ExpiresIn(c[target], min_ttl, max_ttl, t) = 0

\* The limiter's bucket of the IP of an address.
IpKey(addr) == [ip |-> addr.ip, port |-> NoPort]

\* Lookups in flight, over all targets.
RECURSIVE InFlightOver(_, _)
InFlightOver(out, keys) ==
    IF keys = {}
    THEN 0
    ELSE LET k == CHOOSE x \in keys : TRUE
         IN out[k] + InFlightOver(out, keys \ {k})
InFlight(out) == InFlightOver(out, Keys)

(* C1: a put whose sequence is less than or equal to the stored one (an     *)
(* equal sequence with another payload included) leaves the cache as it     *)
(* was, a put with a strictly greater sequence, or for an absent key,       *)
(* stores the packet whole, the entry a get then returns carries the        *)
(* greatest sequence put so far, and no step lowers a key's sequence.       *)
C1_PutStep ==
    LET p == last'.packet
        e == cache[p.k]
    IN /\ (e # None /\ p.seq <= e.packet.seq) => cache' = cache
       /\ (e = None \/ p.seq > e.packet.seq) =>
              cache' = [cache EXCEPT ![p.k] = [packet |-> p, stored_at |-> now]]
       /\ CacheGet(cache', p.k) # None
       /\ CacheGet(cache', p.k).packet.seq = maxPut'[p.k]
C1_MonotonicWriteGuard ==
    [][/\ last'.op = "put" => C1_PutStep
       /\ \A k \in Keys :
              cache[k] # None =>
                  cache'[k] # None /\ cache'[k].packet.seq >= cache[k].packet.seq]_vars

\* A put with the stored sequence and another payload has just been dropped.
C1_Witness ==
    /\ last.op = "put"
    /\ cache[last.packet.k].packet.seq = last.packet.seq
    /\ cache[last.packet.k].packet.v # last.packet.v
    /\ maxPut[last.packet.k] = last.packet.seq

(* C2: once every writer that proposed a packet for a key has made its put, *)
(* in whatever order the puts came, the cache holds for that key one of the *)
(* proposed packets that carry the highest sequence proposed; the very      *)
(* packet, when only one was proposed with that sequence.                   *)
C2_HighestSequenceWins ==
    \A k \in Keys :
        (\A w \in writers : w.k # k) =>
            IF proposed[k] = {}
            THEN cache[k] = None
            ELSE /\ cache[k] # None
                 /\ cache[k].packet \in proposed[k]
                 /\ cache[k].packet.k = k
                 /\ \A p \in proposed[k] : p.seq = cache[k].packet.seq
                 /\ maxPut[k] = cache[k].packet.seq

\* The last of several puts for a key carried a lower sequence than the one
\* stored before it, and no writer is left for the key.
C2_Witness ==
    /\ last.op = "put"
    /\ \A w \in writers : w.k # last.packet.k
    /\ last.packet.seq < cache[last.packet.k].packet.seq
    /\ cache[last.packet.k].packet \in proposed[last.packet.k]

(* C3: a get-value request whose target has a cache entry is answered with  *)
(* one response carrying that entry's value, key, sequence and signature,   *)
(* addressed to the requester under its transaction id, whether or not the  *)
(* entry is expired and whether or not the source is rate limited.          *)
C3_ServeStaleOnHit ==
    (/\ Handled
     /\ last.request.kind = "GetValue"
     /\ cache[last.request.target] # None) =>
        LET e == cache[last.request.target]
        IN /\ Len(last.responses) = 1
           /\ last.responses[1].to = last.from
           /\ last.responses[1].tid = last.tid
           /\ last.responses[1].v = e.packet.v
           /\ last.responses[1].k = e.packet.k
           /\ last.responses[1].seq = e.packet.seq
           /\ last.responses[1].sig = e.packet.sig

\* An expired entry has just been served to a rate-limited source.
C3_Witness ==
    /\ Handled
    /\ last.request.kind = "GetValue"
    /\ cache[last.request.target] # None
    /\ ExpiresIn(cache[last.request.target], minimum_ttl, maximum_ttl, now) = 0
    /\ last.limited
    /\ Len(last.responses) = 1

(* C4: handling a get-value request from A for T puts one more lookup for T *)
(* in flight exactly when (T has no entry or its expires_in is 0) and       *)
(* is_limited(A) answers false; it issues none otherwise, and no request of *)
(* any kind issues more than one, or one for another target.                *)
C4_HandleStep ==
    LET T == last'.request.target
        refresh == NeedsRefresh(cache, T, minimum_ttl, maximum_ttl, now)
        limited == IsLimited(limiter, IpKey(last'.from), now).limited
    IN /\ (refresh /\ ~limited) => outbound' = [outbound EXCEPT ![T] = @ + 1]
       /\ ~(refresh /\ ~limited) => outbound' = outbound
C4_RefreshDecision ==
    [][last'.op = "handle" =>
          /\ last'.request.kind = "GetValue" => C4_HandleStep
          /\ InFlight(outbound') - InFlight(outbound) \in {0, 1}
          /\ Len(last'.queries) = InFlight(outbound') - InFlight(outbound)]_vars

\* An expired entry was served and its refresh went out.
C4_Witness ==
    /\ Handled
    /\ last.request.kind = "GetValue"
    /\ cache[last.request.target] # None
    /\ Len(last.responses) = 1
    /\ Len(last.queries) = 1
    /\ outbound[last.request.target] >= 1

(* C5, as claimed: the lookup that follows the filling of a key's empty     *)
(* slot by a network lookup's packet is answered from the cache with        *)
(* expired == false.                                                        *)
C5_RepeatedLookupIsFresh ==
    (Handled /\ last.after_fill) =>
        Len(last.responses) = 1 /\ ~last.should_query

(* C5, amended: a lookup for a key with no entry, from a source that is not *)
(* rate limited, gets no cached answer and puts exactly one lookup for the  *)
(* key in flight; a packet the lookup yields is handed to a writer that     *)
(* leaves only by calling Cache.put with it, after which the key has an     *)
(* entry of at least that sequence, the yielded packet itself when the key  *)
(* had none; and every later lookup for the key is answered from the cache  *)
(* with the entry held at that time, with expired == false exactly when     *)
(* less than that entry's effective TTL, its smallest record TTL clamped    *)
(* into [min_ttl, max_ttl], has passed since that entry was stored: with an *)
(* effective TTL of 0 it is expired from the start.                         *)
C5_MissStep ==
    LET T == last'.request.target
    IN (/\ cache[T] = None
        /\ ~IsLimited(limiter, IpKey(last'.from), now).limited) =>
           /\ last'.responses = <<>>
           /\ outbound' = [outbound EXCEPT ![T] = @ + 1]
C5_RepeatStep ==
    LET e == cache[last'.request.target]
    IN e # None =>
           /\ Len(last'.responses) = 1
           /\ last'.responses[1].k = e.packet.k
           /\ last'.responses[1].seq = e.packet.seq
           /\ last'.responses[1].v = e.packet.v
           /\ ~last'.should_query <=>
                  now - e.stored_at <
                      EffectiveTtl(e.packet, minimum_ttl, maximum_ttl)
C5_RefreshFeedsCache ==
    [][/\ (last'.op = "handle" /\ last'.request.kind = "GetValue") => C5_MissStep
       /\ last'.op = "yield" =>
              /\ outbound' = [outbound EXCEPT ![last'.lookup] = @ - 1]
              /\ last'.packet.k = last'.lookup
              /\ last'.packet \in writers'
       /\ \A w \in writers \ writers' :
              /\ last'.op \in PutOps
              /\ last'.op = "put" => last'.packet = w
              /\ cache'[w.k] # None
              /\ cache'[w.k].packet.seq >= w.seq
              /\ (cache[w.k] = None \/ cache'[w.k] # cache[w.k]) =>
                     cache'[w.k] = [packet |-> w, stored_at |-> now]
       /\ (last'.op \in HandleOps /\ last'.request.kind = "GetValue")
              => C5_RepeatStep]_vars

\* A second after a lookup's packet was put, the repeated lookup of its key is
\* answered from the cache, not expired, and asks for no refresh.
C5_Witness ==
    /\ Handled
    /\ last.request.kind = "GetValue"
    /\ cache[last.request.target] # None
    /\ now > cache[last.request.target].stored_at
    /\ Len(last.responses) = 1
    /\ ~last.should_query
    /\ last.queries = <<>>

(* C6, as claimed: handling a request changes neither the cache, nor the    *)
(* rate limiter's state, nor the configuration, and issues at most one      *)
(* lookup.                                                                  *)
C6_NoStateChangeOnRequest ==
    [][last'.op = "handle" =>
          /\ cache' = cache
          /\ limiter' = limiter
          /\ config' = config
          /\ InFlight(outbound') - InFlight(outbound) \in {0, 1}]_vars

(* C6, amended: handling a request changes neither the cache, nor the       *)
(* configuration, nor any pending write, and issues at most one lookup; of  *)
(* the rate limiter it changes at most the counter of the source's IP, and  *)
(* only for a get-value request that needs a refresh; the cache changes     *)
(* only by the put of a writer, made later or while a request is handled.   *)
C6_SynchronousFrame ==
    [][/\ last'.op = "handle" =>
              /\ cache' = cache
              /\ config' = config
              /\ writers' = writers
              /\ InFlight(outbound') - InFlight(outbound) \in {0, 1}
              /\ \A key \in LimiterKeys :
                     key # IpKey(last'.from) => limiter'[key] = limiter[key]
              /\ limiter' # limiter =>
                     /\ last'.request.kind = "GetValue"
                     /\ NeedsRefresh(cache, last'.request.target,
                                     minimum_ttl, maximum_ttl, now)
       /\ cache' # cache =>
              /\ last'.op \in PutOps
              /\ \E w \in writers : cache' = CachePut(cache, w, now)
       /\ config' = config]_vars

\* A request has just been counted by the limiter and its refresh issued.
C6_Witness ==
    /\ Handled
    /\ last.limiter_calls = 1
    /\ limiter[IpKey(last.from)] # None
    /\ limiter[IpKey(last.from)].count >= 1
    /\ Len(last.queries) = 1

(* C7: when a get-value request needs a refresh (miss or expired entry) and *)
(* is_limited(source) answers true, no lookup is issued and nothing else is *)
(* done but the default handling of the request; on a miss no response is   *)
(* emitted by the responder itself.                                         *)
C7_LimitedStep ==
    LET T == last'.request.target
    IN (/\ NeedsRefresh(cache, T, minimum_ttl, maximum_ttl, now)
        /\ IsLimited(limiter, IpKey(last'.from), now).limited) =>
           /\ last'.queries = <<>>
           /\ outbound' = outbound
           /\ cache' = cache
           /\ writers' = writers
           /\ cache[T] = None => last'.responses = <<>>
           /\ last'.delegated =
                  <<[from |-> last'.from, tid |-> last'.tid,
                     request |-> last'.request]>>
C7_LimitedRefreshDropped ==
    [][(last'.op = "handle" /\ last'.request.kind = "GetValue")
          => C7_LimitedStep]_vars

\* A miss from a rate-limited source: no response, no lookup, delegation only.
C7_Witness ==
    /\ Handled
    /\ last.request.kind = "GetValue"
    /\ cache[last.request.target] = None
    /\ last.limited
    /\ last.responses = <<>>
    /\ last.queries = <<>>
    /\ Len(last.delegated) = 1

(* C8: a lookup that fails, times out or brings no result leaves the cache  *)
(* and the pending writes as they were, emits nothing and takes its lookup  *)
(* out of flight without putting another in: lookups come into flight only  *)
(* while a request is handled, one at most for each request.                *)
C8_FailedLookupIsInert ==
    [][/\ last'.op = "fail" =>
              /\ cache' = cache
              /\ writers' = writers
              /\ limiter' = limiter
              /\ outbound' = [outbound EXCEPT ![last'.lookup] = @ - 1]
       /\ \A k \in Keys :
              outbound'[k] > outbound[k] =>
                  /\ last'.op = "handle"
                  /\ last'.request = [kind |-> "GetValue", target |-> k]
                  /\ outbound'[k] = outbound[k] + 1
                  /\ nev' = nev + 1]_vars

\* The lookup of a miss has failed: nothing cached, nothing in flight.
C8_Witness ==
    /\ last.op = "fail"
    /\ cache[last.lookup] = None
    /\ InFlight(outbound) = 0
    /\ writers = {}

(* C9: a refresh-needing request from an IP is limited exactly when the IP  *)
(* has already made RateThreshold such requests in its current window, the  *)
(* (N+1)-th and later ones, whatever the source port; the counters of the   *)
(* other IPs are left as they were.                                         *)
C9_CountedStep ==
    LET key == IpKey(last'.from)
        live == limiter[key] # None /\ now - limiter[key].start < RateWindow
        prior == IF live THEN limiter[key].count ELSE 0
    IN /\ last'.limited <=> prior >= RateThreshold
       /\ limiter'[key] # None
       /\ limiter'[key].count = Min(prior + 1, RateThreshold + 1)
       /\ \A other \in LimiterKeys \ {key} : limiter'[other] = limiter[other]
C9_ThresholdPerIp ==
    [][(/\ last'.op = "handle"
        /\ last'.request.kind = "GetValue"
        /\ NeedsRefresh(cache, last'.request.target,
                        minimum_ttl, maximum_ttl, now))
          => C9_CountedStep]_vars

\* ip1 is past its threshold, and in the same window a request from ip2 is
\* not limited.
C9_Witness ==
    /\ Handled
    /\ last.from.ip = "ip2"
    /\ last.limiter_calls = 1
    /\ ~last.limited
    /\ Len(last.queries) = 1
    /\ limiter[IpKey(SocketAddr("ip1", 6881))] # None
    /\ limiter[IpKey(SocketAddr("ip1", 6881))].count > RateThreshold
    /\ now - limiter[IpKey(SocketAddr("ip1", 6881))].start < RateWindow

(* C10: a request that is not a get-value lookup gets no response from the  *)
(* responder, reads neither the cache nor the limiter, issues no lookup,    *)
(* changes nothing, and reaches the default handler once, with its source,  *)
(* transaction id and body as they came.                                    *)
C10_OtherRequestsDelegated ==
    [][(last'.op = "handle" /\ last'.request.kind # "GetValue") =>
          /\ last'.responses = <<>>
          /\ last'.cache_gets = 0
          /\ last'.limiter_calls = 0
          /\ last'.queries = <<>>
          /\ outbound' = outbound
          /\ limiter' = limiter
          /\ cache' = cache
          /\ last'.delegated =
                 <<[from |-> last'.from, tid |-> last'.tid,
                    request |-> last'.request]>>]_vars

\* A get-peers request for a target the cache holds went to the default
\* handler unanswered.
C10_Witness ==
    /\ Handled
    /\ last.request.kind = "GetPeers"
    /\ cache[last.request.target] # None
    /\ last.responses = <<>>
    /\ Len(last.delegated) = 1

(* C11: an envelope built by a keypair over a payload and serialised as     *)
(* signature (64 bytes), sequence (8 bytes, big-endian), payload, parses    *)
(* under the keypair's public key into the same sequence, payload, key and  *)
(* signature; the same bytes parsed under another public key fail with      *)
(* InvalidSignature.                                                        *)
C11_EnvelopeRoundTrip ==
    /\ last.op = "wire" =>
           /\ Len(last.bytes) = 64 + 8 + Len(last.args.v)
           /\ SubSeq(last.bytes, 1, 64) = last.args.sig
           /\ SubSeq(last.bytes, 65, 72) = BeBytes(last.micros, 8)
           /\ SubSeq(last.bytes, 73, Len(last.bytes)) = PacketBytes(last.packet)
    /\ (last.op = "parse" /\ last.whole) =>
           IF last.public_key = last.sent.k
           THEN /\ last.result.ok
                /\ last.result.args.seq = last.micros
                /\ last.result.args.v = PacketBytes(last.packet)
                /\ last.result.args.k = last.public_key
                /\ last.result.args.sig = last.sent.sig
           ELSE /\ ~last.result.ok
                /\ last.result.err = [error |-> "InvalidSignature"]

\* An envelope whose sequence takes several bytes has come back whole from the
\* wire under its own public key.
C11_Witness ==
    /\ last.op = "parse"
    /\ last.whole
    /\ last.public_key = last.sent.k
    /\ last.micros > 65536
    /\ last.result.ok
    /\ last.result.args.seq = last.micros

(* C12: bytes shorter than 64, the empty string included, fail to parse     *)
(* with the signature-length error carrying the length of the input,        *)
(* whatever the public key, and verify is not called.                       *)
C12_TooShortForSignature ==
    (last.op = "parse" /\ Len(last.bytes) < 64) =>
        /\ ~last.result.ok
        /\ last.result.err = [error |-> "RelayPayloadInvalidSignatureLength",
                              len |-> Len(last.bytes)]
        /\ last.result.verifications = 0

\* All but the last byte of a signature, sent to the signer's own key, were
\* turned down for their length.
C12_Witness ==
    /\ last.op = "parse"
    /\ Len(last.bytes) = 63
    /\ last.public_key = last.sent.k
    /\ ~last.result.ok
    /\ last.result.err.len = 63

(* C13: bytes of a length from 64 to 71 fail to parse with the              *)
(* sequence-length error carrying the length less 64, and verify is not     *)
(* called; 72 bytes are not turned down for their length: verify is called, *)
(* over an empty payload.                                                   *)
C13_TooShortForSequence ==
    /\ (last.op = "parse" /\ Len(last.bytes) >= 64 /\ Len(last.bytes) < 72) =>
           /\ ~last.result.ok
           /\ last.result.err = [error |-> "RelayPayloadInvalidSequenceLength",
                                 len |-> Len(last.bytes) - 64]
           /\ last.result.verifications = 0
    /\ (last.op = "parse" /\ Len(last.bytes) = 72) =>
           /\ last.result.verifications = 1
           /\ last.result.ok =>
                  /\ last.result.args.v = <<>>
                  /\ Verify(last.public_key,
                            signable(last.result.args.seq, <<>>),
                            last.result.args.sig)
           /\ ~last.result.ok =>
                  /\ last.result.err = [error |-> "InvalidSignature"]
                  /\ ~Verify(last.public_key,
                             signable(FromBeBytes(SubSeq(last.bytes, 65, 72)),
                                      <<>>),
                             SubSeq(last.bytes, 1, 64))

\* A signature followed by seven bytes of sequence was turned down, seven
\* bytes reported.
C13_Witness ==
    /\ last.op = "parse"
    /\ Len(last.bytes) = 71
    /\ ~last.result.ok
    /\ last.result.err.error = "RelayPayloadInvalidSequenceLength"
    /\ last.result.err.len = 7

(* C15: expires_in(min_ttl, max_ttl) is max(0, effective_ttl - elapsed) with *)
(* effective_ttl = min(max_ttl, max(min_ttl, smallest record TTL)); it is   *)
(* never negative and is 0 exactly when elapsed >= effective_ttl.  Under    *)
(* the default bounds 30 and 86400 a record TTL of 5 gives 30, one of       *)
(* 999999 gives 86400, and an entry of effective TTL 30 stored 31 seconds   *)
(* ago reports 0.                                                           *)
C15_TtlClampAndExpiry ==
    last.op = "expires_in" =>
        LET lifted == IF last.ttl < last.min_ttl THEN last.min_ttl ELSE last.ttl
            clamped == IF lifted > last.max_ttl THEN last.max_ttl ELSE lifted
            defaults == /\ last.min_ttl = 30
                        /\ last.max_ttl = 86400
        IN /\ last.effective = clamped
           /\ last.result >= 0
           /\ last.result = 0 <=> last.age >= last.effective
           /\ last.result > 0 => last.result = last.effective - last.age
           /\ (defaults /\ last.ttl = 5) => last.effective = 30
           /\ (defaults /\ last.ttl = 999999) => last.effective = 86400
           /\ (last.effective = 30 /\ last.age = 31) => last.result = 0

\* Under the default bounds a record TTL of 5 was lifted to 30, and 31
\* seconds after it was stored the entry reports 0.
C15_Witness ==
    /\ last.op = "expires_in"
    /\ last.min_ttl = DEFAULT_MINIMUM_TTL
    /\ last.max_ttl = DEFAULT_MAXIMUM_TTL
    /\ last.ttl = 5
    /\ last.age = 31
    /\ last.effective = 30
    /\ last.result = 0

(* C14: every packet the cache holds, and every packet in the hands of a    *)
(* writer on its way to the cache, is stored under its own public key and   *)
(* carries a signature that verifies under that key over the canonical      *)
(* signable encoding of its sequence and payload: an answer that fails      *)
(* verification is dropped by the parse and reaches neither.                *)
C14_OnlyVerifiedPacketsCached ==
    /\ \A k \in Keys :
           cache[k] # None =>
               /\ cache[k].packet.k = k
               /\ Verify(k, signable(cache[k].packet.seq,
                                     PacketBytes(cache[k].packet.v)),
                         cache[k].packet.sig)
    /\ \A w \in writers :
           Verify(w.k, signable(w.seq, PacketBytes(w.v)), w.sig)
    /\ last.op = "yield" =>
           Verify(last.lookup,
                  signable(last.packet.seq, PacketBytes(last.packet.v)),
                  last.packet.sig)

\* An answer to the refresh of a cached key has just failed verification and
\* was dropped; the entry cached for the key is as it was, no writer holds
\* anything.
C14_Witness ==
    /\ last.op = "reject"
    /\ last.err = [error |-> "InvalidSignature"]
    /\ cache[last.lookup] # None
    /\ writers = {}

(* C16: while a get-value request is handled, the response built from the   *)
(* cache is sent before the lookup is issued; it is sent exactly when the   *)
(* target has an entry, whether or not a lookup follows; the lookup issued  *)
(* is still in flight when the handler returns; and the steps that complete *)
(* a lookup, by an answer, a failure or a put, send nothing.                *)
C16_ResponseBeforeRefresh ==
    [][/\ (last'.op \in HandleOps /\ last'.request.kind = "GetValue") =>
              LET T == last'.request.target
                  e == last'.effects
              IN /\ Len(last'.responses) = IF cache[T] # None THEN 1 ELSE 0
                 /\ Count(e, "rpc.response") = Len(last'.responses)
                 /\ Count(e, "rpc.get") = Len(last'.queries)
                 /\ \A i, j \in DOMAIN e :
                        (e[i] = "rpc.response" /\ e[j] = "rpc.get") => i < j
                 /\ outbound'[T] = outbound[T] + Len(last'.queries)
       /\ last'.op \in {"yield", "reject", "fail", "put"} =>
              "responses" \notin DOMAIN last']_vars

\* An expired entry was sent, then its refresh issued, and the handler
\* returned with the lookup in flight.
C16_Witness ==
    /\ Handled
    /\ last.effects = <<"cache.get", "rpc.response", "expires_in",
                        "is_limited", "rpc.get", "inner.handle_request">>
    /\ outbound[last.request.target] >= 1

(* C17: a request that needs a refresh and is not limited puts one more     *)
(* lookup in flight for its target even when others are in flight for it    *)
(* already; and once no lookup is in flight for a key and no writer holds a *)
(* packet for it, the key's entry is what one put of a packet of the        *)
(* highest sequence among all the answers would have left, whatever the     *)
(* order of the completions and the duplicates among them.                  *)
C17_DuplicateLookupsHarmless ==
    [][/\ (/\ last'.op \in HandleOps
           /\ last'.request.kind = "GetValue"
           /\ NeedsRefresh(cache, last'.request.target,
                           minimum_ttl, maximum_ttl, now)
           /\ ~IsLimited(limiter, IpKey(last'.from), now).limited) =>
              outbound'[last'.request.target] =
                  outbound[last'.request.target] + 1
       /\ \A k \in Keys :
              (outbound'[k] = 0 /\ \A w \in writers' : w.k # k) =>
                  IF proposed'[k] = {}
                  THEN cache'[k] = None
                  ELSE \E p \in proposed'[k], t \in 0..now' :
                           cache'[k] =
                               CachePut([x \in Keys |-> None], p, t)[k]]_vars

\* Two sources asked for one missing key at the same instant, each of their
\* lookups was answered, and the answer of the lower sequence was put last:
\* the cache holds the higher one.  (With a minimum TTL of 1 and no time
\* passed, a request that came after the first put would have found a fresh
\* entry and issued nothing.)
C17_Witness ==
    /\ last.op = "put"
    /\ now = 0
    /\ minimum_ttl = 1
    /\ outbound[last.packet.k] = 0
    /\ writers = {}
    /\ ~last.inserted
    /\ last.packet.seq < cache[last.packet.k].packet.seq
    /\ cache[last.packet.k].packet \in proposed[last.packet.k]
    /\ cache[last.packet.k].stored_at = 0

(* C18: the response to a get-value request carries the value, the public   *)
(* key, the sequence and the signature of the one packet the cache held for *)
(* the target when cache.get was called, also when a put replaces that      *)
(* entry before the response is sent; so the signature of a response always *)
(* verifies over its own sequence and value.                                *)
C18_ResponseIsOneEntry ==
    [][(last'.op \in HandleOps /\ last'.request.kind = "GetValue") =>
          LET e == cache[last'.request.target]
          IN IF e = None
             THEN last'.responses = <<>>
             ELSE /\ Len(last'.responses) = 1
                  /\ LET r == last'.responses[1]
                     IN /\ <<r.v, r.k, r.seq, r.sig>> =
                               <<e.packet.v, e.packet.k, e.packet.seq,
                                 e.packet.sig>>
                        /\ Verify(r.k, signable(r.seq, PacketBytes(r.v)),
                                  r.sig)]_vars

\* A put of a higher sequence fell between cache.get and the response: the
\* response carries the older packet, whole.
C18_Witness ==
    /\ last.op = "handle_across_put"
    /\ Len(last.responses) = 1
    /\ last.responses[1].seq < cache[last.request.target].packet.seq
    /\ last.responses[1].sig # cache[last.request.target].packet.sig
    /\ Verify(last.responses[1].k,
              signable(last.responses[1].seq,
                       PacketBytes(last.responses[1].v)),
              last.responses[1].sig)

(* C19: every inbound request, a get-value request included, is passed to   *)
(* the default handler exactly once, with its source, transaction id and    *)
(* body as they came, as the last thing its handling does, whether the      *)
(* cache answered it or not and whether its refresh went out or not.        *)
C19_DefaultHandlerAlwaysRuns ==
    last.op \in HandleOps =>
        /\ last.delegated =
               <<[from |-> last.from, tid |-> last.tid,
                  request |-> last.request]>>
        /\ Count(last.effects, "inner.handle_request") = 1
        /\ last.effects[Len(last.effects)] = "inner.handle_request"

\* A get-value request was answered from a fresh entry and passed to the
\* default handler as well.
C19_Witness ==
    /\ Handled
    /\ last.request.kind = "GetValue"
    /\ Len(last.responses) = 1
    /\ ~last.should_query
    /\ Len(last.delegated) = 1
    /\ last.effects = <<"cache.get", "rpc.response", "expires_in",
                        "inner.handle_request">>

(* C20: is_limited is called once for a get-value request whose target has  *)
(* no entry or an expired one, and not at all for any other request; a      *)
(* request answered from a fresh entry leaves every counter of the limiter  *)
(* as it was, and a request that needs a refresh raises the counter of its  *)
(* source's IP by one call only.                                            *)
C20_LimiterOnlyForRefresh ==
    [][last'.op \in HandleOps =>
          LET refresh ==
                  /\ last'.request.kind = "GetValue"
                  /\ NeedsRefresh(cache, last'.request.target,
                                  minimum_ttl, maximum_ttl, now)
          IN /\ last'.limiter_calls = IF refresh THEN 1 ELSE 0
             /\ Count(last'.effects, "is_limited") = last'.limiter_calls
             /\ ~refresh => limiter' = limiter
             /\ refresh =>
                    limiter' =
                        IsLimited(limiter, IpKey(last'.from), now).state]_vars

\* A source that has used up its budget asked for a fresh entry: it was
\* answered, and its counter is where it was.
C20_Witness ==
    /\ Handled
    /\ last.request.kind = "GetValue"
    /\ Len(last.responses) = 1
    /\ last.limiter_calls = 0
    /\ limiter[IpKey(last.from)] # None
    /\ limiter[IpKey(last.from)].count = RateThreshold
    /\ now - limiter[IpKey(last.from)].start < RateWindow

====
